---- MODULE Spec2Model ----
(***************************************************************************)
(* Model of the Coverity issue reporter (coverity.py) and of process_file  *)
(* (app/main.py).                                                          *)
(*                                                                         *)
(* Text is a sequence of characters; a report is a sequence of lines, each *)
(* line a record carrying the fields the source formats into it.  The file *)
(* system maps an absolute path (a sequence of components) to a file.      *)
(* Symbolic links are not modelled: Path.resolve() normalises a path       *)
(* lexically.                                                              *)
(***************************************************************************)
EXTENDS Integers, Sequences, FiniteSets, TLC

VARIABLES fs,        \* file system: absolute path -> file
          json,      \* the findings source coverity_issues.json
          call,      \* the last call made: operation and arguments
          ret        \* what the last call returned

vars == <<fs, json, call, ret>>

----------------------------------------------------------------------------
(* Bounds *)

MaxLen      == 5    \* characters in a source file
MaxLine     == 8    \* largest line number asked for
MaxRadius   == 2    \* largest context_lines given to get_file_context directly
MaxFindings == 2    \* findings in the 'issues' list
MaxParts    == 2    \* components of a filename given to process_file

(* Program constants *)

FullRadius == 5
FileRadius == 3

----------------------------------------------------------------------------
(* Characters and text *)

NL    == "\n"
Chars == {"x", " ", NL}
White == {" ", NL}

Max(a, b) == IF a >= b THEN a ELSE b
Min(a, b) == IF a <= b THEN a ELSE b

RECURSIVE SeqsUpTo(_, _)
SeqsUpTo(S, n) ==
    IF n = 0 THEN {<<>>}
    ELSE LET prev == SeqsUpTo(S, n - 1)
         IN  prev \cup {Append(s, c) : s \in {t \in prev : Len(t) = n - 1}, c \in S}

\* f.readlines(): the text cut after every newline, terminators kept
RECURSIVE readlines_from(_, _, _)
readlines_from(text, i, cur) ==
    IF i > Len(text)
    THEN IF cur = <<>> THEN <<>> ELSE <<cur>>
    ELSE IF text[i] = NL
         THEN <<Append(cur, NL)>> \o readlines_from(text, i + 1, <<>>)
         ELSE readlines_from(text, i + 1, Append(cur, text[i]))

readlines(text) == readlines_from(text, 1, <<>>)

\* str.strip(): whitespace removed at both ends
RECURSIVE lstrip(_)
lstrip(s) == IF s # <<>> /\ Head(s) \in White THEN lstrip(Tail(s)) ELSE s

RECURSIVE rstrip(_)
rstrip(s) ==
    IF s # <<>> /\ s[Len(s)] \in White THEN rstrip(SubSeq(s, 1, Len(s) - 1)) ELSE s

strip(s) == rstrip(lstrip(s))

\* "".join(list)
RECURSIVE join(_)
join(ls) == IF ls = <<>> THEN <<>> ELSE Head(ls) \o join(Tail(ls))

\* str.split('\n'): always at least one element
RECURSIVE split_from(_, _, _)
split_from(text, i, cur) ==
    IF i > Len(text)
    THEN <<cur>>
    ELSE IF text[i] = NL
         THEN <<cur>> \o split_from(text, i + 1, <<>>)
         ELSE split_from(text, i + 1, Append(cur, text[i]))

split(text) == split_from(text, 1, <<>>)

\* list[a:b] of Python, 0-based, negative bounds counted from the end
SliceIndex(k, n) == IF k < 0 THEN Max(0, k + n) ELSE Min(k, n)
slice(ls, a, b) ==
    LET lo == SliceIndex(a, Len(ls))
        hi == SliceIndex(b, Len(ls))
    IN  IF lo >= hi THEN <<>> ELSE SubSeq(ls, lo + 1, hi)

\* list[k] of Python, 0-based, negative index counted from the end
IndexInRange(ls, k) == k >= -Len(ls) /\ k < Len(ls)
index(ls, k) == IF k >= 0 THEN ls[k + 1] ELSE ls[Len(ls) + k + 1]

----------------------------------------------------------------------------
(* The file system *)

Cwd == <<"w">>                       \* os.getcwd()

Missing       == [st |-> "missing", text |-> <<>>]
Unreadable    == [st |-> "unreadable", text |-> <<>>]
Readable(txt) == [st |-> "ok", text |-> txt]

\* os.path.join(project_root, file_path) for a plain file name
path_join(root, file_path) == Append(root, file_path)

\* os.path.exists(full_path) for an absolute, normalised path
path_exists(files, full_path) ==
    full_path \in DOMAIN files /\ files[full_path].st # "missing"

----------------------------------------------------------------------------
(* dict.get(key, default) *)

get(d, key, default) == IF key \in DOMAIN d THEN d[key] ELSE default

(* Lines of a report: the format string of the source and its arguments *)

L(fmt)            == [fmt |-> fmt]
L1(fmt, a)        == [fmt |-> fmt, a |-> a]
L2(fmt, a, b)     == [fmt |-> fmt, a |-> a, b |-> b]
L3(fmt, a, b, c)  == [fmt |-> fmt, a |-> a, b |-> b, c |-> c]
Banner            == L("================================================================================")
Rule              == L("--------------------------------------------------------------------------------")
Blank             == L("")

----------------------------------------------------------------------------
(* get_file_context *)

NotFoundError(file_path) == [error |-> L1("File {} not found", file_path)]
ReadError(cause)         == [error |-> L1("Error reading file: {}", cause)]

\* mutant: the 1-based line number used as the 0-based index
window_start_off_by_one(line_number, context_lines) ==
    Max(0, line_number - context_lines)

\* start_line = max(0, line_number - context_lines - 1), a 0-based index
window_start(line_number, context_lines) == Max(0, line_number - context_lines - 1)

\* mutant: the end of the window not cut at the end of the file
window_end_unclamped(lines, line_number, context_lines) ==
    line_number + context_lines

\* end_line = min(len(lines), line_number + context_lines)
window_end(lines, line_number, context_lines) ==
    Min(Len(lines), line_number + context_lines)

\* lines[line_number - 1].strip() if line_number <= len(lines) else ""
issue_line_raises(lines, line_number) ==
    line_number <= Len(lines) /\ ~IndexInRange(lines, line_number - 1)

issue_line_text(lines, line_number) ==
    IF line_number <= Len(lines) THEN strip(index(lines, line_number - 1)) ELSE <<>>

get_file_context(files, file_path, line_number, context_lines, project_root) ==
    LET full_path == path_join(project_root, file_path) IN
    IF ~path_exists(files, full_path)
    THEN NotFoundError(file_path)
    ELSE IF files[full_path].st = "unreadable"
    THEN ReadError("Permission denied")
    ELSE
      LET lines      == readlines(files[full_path].text)
          start_line == window_start(line_number, context_lines)
          end_line   == window_end(lines, line_number, context_lines)
      IN  IF issue_line_raises(lines, line_number)
          THEN ReadError("list index out of range")
          ELSE [file_path   |-> file_path,
                target_line |-> line_number,
                start_line  |-> start_line + 1,
                end_line    |-> end_line,
                context     |-> join(slice(lines, start_line, end_line)),
                issue_line  |-> issue_line_text(lines, line_number),
                total_lines |-> Len(lines)]

----------------------------------------------------------------------------
(* The loop that numbers the lines of a context block; the same in both
   reports *)

\* mutant: the empty last element of the split is printed too
keep_line_always(context_lines, i) == TRUE

keep_line(context_lines, i) ==
    context_lines[i + 1] # <<>> \/ i < Len(context_lines) - 1

\* mutant: the marker set by position in the window, not by line number
RECURSIVE number_lines_by_position(_, _, _, _)
number_lines_by_position(context_lines, i, start_line, line_number) ==
    IF i >= Len(context_lines)
    THEN <<>>
    ELSE LET line     == context_lines[i + 1]
             line_num == start_line + i
             marker   == IF i + 1 = line_number THEN ">>> " ELSE "    "
             this     == IF keep_line(context_lines, i)
                         THEN <<[fmt      |-> "{marker}{line_num:4d} | {line}",
                                 marker   |-> marker,
                                 line_num |-> line_num,
                                 line     |-> line]>>
                         ELSE <<>>
         IN  this \o number_lines_by_position(context_lines, i + 1, start_line,
                                              line_number)

RECURSIVE number_lines(_, _, _, _)
number_lines(context_lines, i, start_line, line_number) ==
    IF i >= Len(context_lines)
    THEN <<>>
    ELSE LET line     == context_lines[i + 1]
             line_num == start_line + i
             marker   == IF line_num = line_number THEN ">>> " ELSE "    "
             this     == IF keep_line(context_lines, i)
                         THEN <<[fmt      |-> "{marker}{line_num:4d} | {line}",
                                 marker   |-> marker,
                                 line_num |-> line_num,
                                 line     |-> line]>>
                         ELSE <<>>
         IN  this \o number_lines(context_lines, i + 1, start_line, line_number)

----------------------------------------------------------------------------
(* fix_coverity_issues *)

JsonPath == "coverity_issues.json"

\* mutant: the message does not name the path
not_found_message_unnamed(coverity_json_path) ==
    << L("Error: Coverity issues file not found") >>

not_found_message(coverity_json_path) ==
    << L1("Error: Coverity issues file not found at {}", coverity_json_path) >>

full_issue_block(files, idx, issue, project_root) ==
    LET file_path      == get(issue, "file", "Unknown")
        line_number    == get(issue, "line", 0)
        function       == get(issue, "function", "Unknown")
        checker        == get(issue, "checker", "Unknown")
        description    == get(issue, "description", "No description")
        severity       == get(issue, "severity", "Unknown")
        category       == get(issue, "category", "Unknown")
        cwe            == get(issue, "cwe", "N/A")
        recommendation == get(issue, "recommendation", "No recommendation provided")
        context        == get_file_context(files, file_path, line_number,
                                           FullRadius, project_root)
    IN  << L2("ISSUE #{}: {}", idx, checker),
           Rule,
           L1("File: {}", file_path),
           L1("Line: {}", line_number),
           L1("Function: {}", function),
           L1("Severity: {}", severity),
           L1("Category: {}", category),
           L1("CWE: {}", cwe),
           Blank,
           L1("Description: {}", description),
           Blank,
           L1("Recommendation: {}", recommendation),
           Blank >>
        \o (IF "error" \in DOMAIN context
            THEN << L1("Context: {}", context.error) >>
            ELSE << L2("CODE CONTEXT (Lines {}-{}):", context.start_line,
                       context.end_line),
                    Rule >>
                 \o number_lines(split(context.context), 0, context.start_line,
                                 line_number)
                 \o << Rule,
                       L1("Issue Line: {}", context.issue_line) >>)
        \o << Blank, Banner, Blank >>

\* mutant: a finding whose context cannot be read ends the loop
RECURSIVE full_issue_blocks_abort(_, _, _, _)
full_issue_blocks_abort(files, issues, idx, project_root) ==
    IF idx > Len(issues)
    THEN <<>>
    ELSE IF "error" \in DOMAIN get_file_context(files, get(issues[idx], "file", "Unknown"),
                                                get(issues[idx], "line", 0), FullRadius,
                                                project_root)
    THEN <<>>
    ELSE full_issue_block(files, idx, issues[idx], project_root)
         \o full_issue_blocks_abort(files, issues, idx + 1, project_root)

RECURSIVE full_issue_blocks(_, _, _, _)
full_issue_blocks(files, issues, idx, project_root) ==
    IF idx > Len(issues)
    THEN <<>>
    ELSE full_issue_block(files, idx, issues[idx], project_root)
         \o full_issue_blocks(files, issues, idx + 1, project_root)

FixingInstructions ==
    << L("FIXING INSTRUCTIONS:"),
       Rule,
       L("To fix these issues:"),
       L("1. Review each issue's description and recommendation"),
       L("2. Navigate to the specified file and line number"),
       L("3. Apply the recommended fix based on the issue type"),
       L("4. Test the changes to ensure no functionality is broken"),
       L("5. Re-run Coverity analysis to verify the fix"),
       Blank,
       L("Common Fixes by Issue Type:"),
       L("- RESOURCE_LEAK: Use context managers (with statement)"),
       L("- NULL_POINTER: Add null/None checks before accessing"),
       L("- UNINITIALIZED_VARIABLE: Initialize variables at declaration"),
       L("- BUFFER_OVERFLOW: Add bounds checking and validation"),
       L("- MEMORY_LEAK: Implement proper cleanup and garbage collection"),
       L("- FORMAT_STRING_VULNERABILITY: Use parameterized formatting"),
       L("- PATH_TRAVERSAL: Validate and sanitize file paths"),
       L("- SQL_INJECTION: Use parameterized queries"),
       Blank >>

full_summary(coverity_data, issues) ==
    LET summary == get(coverity_data, "summary", <<>>) IN
    << Banner,
       L("COVERITY ISSUES ANALYSIS"),
       Banner,
       Blank,
       L1("Total Issues: {}", get(summary, "total_issues", Len(issues))),
       L1("High Severity: {}", get(summary, "high_severity", 0)),
       L1("Medium Severity: {}", get(summary, "medium_severity", 0)),
       L1("Low Severity: {}", get(summary, "low_severity", 0)),
       Blank,
       Banner,
       Blank >>

\* mutant: the early return for an empty list is missing
no_issues_never(issues) == FALSE

no_issues(issues) == issues = <<>>          \* `not issues`

fix_coverity_issues(files, jsonfile, coverity_json_path) ==
    LET project_root == Cwd IN
    IF jsonfile.st = "missing"
    THEN not_found_message(coverity_json_path)
    ELSE IF jsonfile.st = "invalid"
    THEN IF jsonfile.exc = "JSONDecodeError"
         THEN << L2("Error: Invalid JSON format in {}: {}", coverity_json_path,
                    jsonfile.cause) >>
         ELSE << L1("Error processing Coverity issues: {}", jsonfile.cause) >>
    ELSE
      LET coverity_data == jsonfile.data
          issues        == get(coverity_data, "issues", <<>>)
      IN  IF no_issues(issues)
          THEN << L("No Coverity issues found in the JSON file.") >>
          ELSE full_summary(coverity_data, issues)
               \o full_issue_blocks(files, issues, 1, project_root)
               \o FixingInstructions

----------------------------------------------------------------------------
(* get_issue_by_file *)

file_issue_block(files, file_path, idx, issue, project_root) ==
    LET line_number    == get(issue, "line", 0)
        function       == get(issue, "function", "Unknown")
        checker        == get(issue, "checker", "Unknown")
        description    == get(issue, "description", "No description")
        severity       == get(issue, "severity", "Unknown")
        recommendation == get(issue, "recommendation", "No recommendation provided")
        context        == get_file_context(files, file_path, line_number,
                                           FileRadius, project_root)
    IN  << L3("ISSUE #{}: {} (Line {})", idx, checker, line_number),
           Rule,
           L1("Function: {}", function),
           L1("Severity: {}", severity),
           L1("Description: {}", description),
           L1("Recommendation: {}", recommendation),
           Blank >>
        \o (IF "error" \notin DOMAIN context
            THEN << L2("Code Context (Lines {}-{}):", context.start_line,
                       context.end_line) >>
                 \o number_lines(split(context.context), 0, context.start_line,
                                 line_number)
            ELSE <<>>)
        \o << Blank, Banner, Blank >>

RECURSIVE file_issue_blocks(_, _, _, _, _)
file_issue_blocks(files, file_path, file_issues, idx, project_root) ==
    IF idx > Len(file_issues)
    THEN <<>>
    ELSE file_issue_block(files, file_path, idx, file_issues[idx], project_root)
         \o file_issue_blocks(files, file_path, file_issues, idx + 1, project_root)

\* mutant: a finding without 'file' counted under the default name
issue_matches_default(issue, file_path) == get(issue, "file", "Unknown") = file_path

\* issue.get('file') == file_path: None, of a finding without 'file', equals no path
issue_matches(issue, file_path) == "file" \in DOMAIN issue /\ issue["file"] = file_path

RECURSIVE filter_issues(_, _)
filter_issues(issues, file_path) ==
    IF issues = <<>>
    THEN <<>>
    ELSE (IF issue_matches(Head(issues), file_path) THEN <<Head(issues)>> ELSE <<>>)
         \o filter_issues(Tail(issues), file_path)

get_issue_by_file(files, jsonfile, file_path, coverity_json_path) ==
    LET project_root == Cwd IN
    IF jsonfile.st = "missing"
    THEN not_found_message(coverity_json_path)
    ELSE IF jsonfile.st = "invalid"
    THEN << L1("Error: {}", jsonfile.cause) >>
    ELSE
      LET coverity_data == jsonfile.data
          issues        == get(coverity_data, "issues", <<>>)
          file_issues   == filter_issues(issues, file_path)
      IN  IF file_issues = <<>>
          THEN << L1("No Coverity issues found in file: {}", file_path) >>
          ELSE << L1("COVERITY ISSUES IN {}", file_path),
                  Banner,
                  L1("Total Issues in File: {}", Len(file_issues)),
                  Blank >>
               \o file_issue_blocks(files, file_path, file_issues, 1, project_root)

----------------------------------------------------------------------------
(* process_file (app/main.py) *)

\* A filename is relative or absolute and has components; ".." is the parent
\* directory, "a..b" an ordinary name that contains two dots.
DotDot == {"..", "a..b"}

has_dotdot(filename) == \E i \in 1..Len(filename.parts) : filename.parts[i] \in DotDot

parent(path) == IF path = <<>> THEN <<>> ELSE SubSeq(path, 1, Len(path) - 1)

\* Path(filename).resolve(): absolute and normalised, the file need not exist
RECURSIVE normalise(_, _)
normalise(cur, parts) ==
    IF parts = <<>> THEN cur
    ELSE IF Head(parts) = ".." THEN normalise(parent(cur), Tail(parts))
    ELSE normalise(Append(cur, Head(parts)), Tail(parts))

resolve(filename) == normalise(IF filename.abs THEN <<>> ELSE Cwd, filename.parts)

\* safe_path.is_relative_to(Path.cwd())
is_relative_to(path, base) ==
    Len(path) >= Len(base) /\ SubSeq(path, 1, Len(base)) = base

is_dir(files, path) ==
    \E q \in DOMAIN files : /\ files[q].st # "missing"
                            /\ Len(q) > Len(path)
                            /\ SubSeq(q, 1, Len(path)) = path

\* The path the operating system reaches for a filename: every component
\* walked through must be an existing directory
RECURSIVE os_walk(_, _, _)
os_walk(files, cur, parts) ==
    IF parts = <<>> THEN [found |-> TRUE, path |-> cur]
    ELSE IF Head(parts) = ".." THEN os_walk(files, parent(cur), Tail(parts))
    ELSE LET nxt == Append(cur, Head(parts)) IN
         IF is_dir(files, nxt) THEN os_walk(files, nxt, Tail(parts))
         ELSE IF Tail(parts) = <<>> /\ path_exists(files, nxt)
              THEN [found |-> TRUE, path |-> nxt]
              ELSE [found |-> FALSE, path |-> nxt]

os_lookup(files, filename) ==
    IF ~filename.abs /\ filename.parts = <<>>
    THEN [found |-> FALSE, path |-> <<>>]
    ELSE os_walk(files, IF filename.abs THEN <<>> ELSE Cwd, filename.parts)

\* os.path.exists(filename)
os_path_exists(files, filename) == os_lookup(files, filename).found

None     == [tag |-> "None"]
Str(txt) == [tag |-> "str", value |-> txt]

\* with open(filename, 'r') as file_obj: return file_obj.read()
open_and_read(files, filename) ==
    LET at == os_lookup(files, filename).path IN
    IF path_exists(files, at) /\ files[at].st = "ok"
    THEN Str(files[at].text)
    ELSE None

process_file(files, filename) ==
    LET safe_path == resolve(filename) IN
    IF (has_dotdot(filename) \/ ~is_relative_to(safe_path, Cwd))
       /\ ~os_path_exists(files, filename)
    THEN None
    ELSE IF ~os_path_exists(files, filename)
    THEN None
    ELSE open_and_read(files, filename)

----------------------------------------------------------------------------
(* State machine.  The program keeps no state of its own: the state is the
   file system it reads, and the last call with what it returned. *)

APath      == path_join(Cwd, "a.py")
BPath      == path_join(Cwd, "b.py")
SecretPath == <<"secret">>                  \* a file outside the working directory

Files(a, b, s) ==
    [p \in {APath, BPath, SecretPath} |->
        IF p = APath THEN a ELSE IF p = BPath THEN b ELSE s]

SourcePaths == {"a.py", "b.py", "Unknown"}          \* paths asked for
SrcTexts    == SeqsUpTo(Chars, MaxLen)
AnyFile     == {Readable(t) : t \in SrcTexts} \cup {Missing, Unreadable}
TwoLines    == <<" ", "x", NL, "x", NL>>
FewFiles    == {Readable(TwoLines), Missing, Unreadable}

NoCall == [op |-> "none"]

JsonMissing == [st |-> "missing"]
JsonInvalid == {[st |-> "invalid", exc |-> "JSONDecodeError",
                 cause |-> "Expecting value: line 1 column 1 (char 0)"],
                [st |-> "invalid", exc |-> "UnicodeDecodeError",
                 cause |-> "'utf-8' codec can't decode byte 0xff in position 0: invalid start byte"]}
JsonOk(data) == [st |-> "ok", data |-> data]

\* a finding: a record with any of the keys 'file' and 'line'
Finding(keys, file, line) == [k \in keys |-> IF k = "file" THEN file ELSE line]

FindingsOver(files, lines) ==
    {Finding(ks, f, l) : ks \in SUBSET {"file", "line"}, f \in files, l \in lines}

SomeSummary == [total_issues |-> 7, high_severity |-> 1]

\* the decoded document: 'issues' and 'summary' are both optional
Document(keys, issues, summary) ==
    [k \in keys |-> IF k = "issues" THEN issues ELSE summary]

ReportFindings == FindingsOver({"a.py", "b.py"}, {1, 3})
BlockFindings  == {f \in FindingsOver({"a.py"}, (-MaxLine)..MaxLine) : "file" \in DOMAIN f}

\* get_file_context called on any file with any line and radius
Init ==
    /\ \E a \in AnyFile : fs = Files(a, Missing, Missing)
    /\ json = JsonMissing
    /\ call = NoCall
    /\ ret = None

\* the two reports on lists of findings
InitReport ==
    /\ \E a \in FewFiles, b \in {Missing, Readable(<<"x">>)} :
          fs = Files(a, b, Missing)
    /\ \/ json = JsonMissing
       \/ json \in JsonInvalid
       \/ \E keys \in SUBSET {"issues", "summary"},
             issues \in SeqsUpTo(ReportFindings, MaxFindings) :
             json = JsonOk(Document(keys, issues, SomeSummary))
    /\ call = NoCall
    /\ ret = None

\* the two reports on one finding in any file
InitBlock ==
    /\ \E a \in AnyFile : fs = Files(a, Missing, Missing)
    /\ \E f \in BlockFindings : json = JsonOk(Document({"issues"}, <<f>>, SomeSummary))
    /\ call = NoCall
    /\ ret = None

\* process_file on a small tree
InitProcess ==
    /\ \E a \in FewFiles, b \in {Missing, Readable(<<"x">>)}, s \in FewFiles :
          fs = Files(a, b, s)
    /\ json = JsonMissing
    /\ call = NoCall
    /\ ret = None

GetFileContext(file_path, line_number, context_lines) ==
    /\ call' = [op |-> "get_file_context", file_path |-> file_path,
                line_number |-> line_number, context_lines |-> context_lines]
    /\ ret' = get_file_context(fs, file_path, line_number, context_lines, Cwd)
    /\ UNCHANGED <<fs, json>>

FixCoverityIssues ==
    /\ call' = [op |-> "fix_coverity_issues", coverity_json_path |-> JsonPath]
    /\ ret' = fix_coverity_issues(fs, json, JsonPath)
    /\ UNCHANGED <<fs, json>>

GetIssueByFile(file_path) ==
    /\ call' = [op |-> "get_issue_by_file", file_path |-> file_path,
                coverity_json_path |-> JsonPath]
    /\ ret' = get_issue_by_file(fs, json, file_path, JsonPath)
    /\ UNCHANGED <<fs, json>>

Components == {"..", "a.py", "a..b", "secret", "w"}
Filenames  == [abs : BOOLEAN, parts : SeqsUpTo(Components, MaxParts)]

ProcessFile(filename) ==
    /\ call' = [op |-> "process_file", filename |-> filename]
    /\ ret' = process_file(fs, filename)
    /\ UNCHANGED <<fs, json>>

Next ==
    \E p \in {"a.py", "b.py"}, T \in -2..MaxLine, R \in 0..MaxRadius :
        GetFileContext(p, T, R)

NextReport ==
    \/ FixCoverityIssues
    \/ \E p \in SourcePaths : GetIssueByFile(p)

NextProcess == \E filename \in Filenames : ProcessFile(filename)

Spec        == Init /\ [][Next]_vars
SpecReport  == InitReport /\ [][NextReport]_vars
SpecBlock   == InitBlock /\ [][NextReport]_vars
SpecProcess == InitProcess /\ [][NextProcess]_vars

----------------------------------------------------------------------------
(* Properties of get_file_context (specification Spec) *)

\* the number of lines of a text, counted from its characters
LineCount(text) ==
    Cardinality({i \in 1..Len(text) : text[i] = NL})
    + (IF text # <<>> /\ text[Len(text)] # NL THEN 1 ELSE 0)

\* the text of line k (1-based) without its terminator, from the characters
LineStart(text, k) ==
    IF k = 1 THEN 1
    ELSE 1 + CHOOSE i \in 1..Len(text) :
                 text[i] = NL /\ Cardinality({j \in 1..i : text[j] = NL}) = k - 1

LineText(text, k) ==
    LET from == LineStart(text, k)
        stop == IF \E i \in from..Len(text) : text[i] = NL
                THEN CHOOSE i \in from..Len(text) :
                         text[i] = NL /\ \A j \in from..(i - 1) : text[j] # NL
                ELSE Len(text) + 1
    IN  SubSeq(text, from, stop - 1)

ContextCallOnReadable ==
    /\ call.op = "get_file_context"
    /\ path_exists(fs, path_join(Cwd, call.file_path))
    /\ fs[path_join(Cwd, call.file_path)].st = "ok"

CalledText == fs[path_join(Cwd, call.file_path)].text

\* C1: for a readable file of N lines, a target line T >= 1 and a radius
\* R >= 0, get_file_context returns start_line = max(1, T-R) and
\* end_line = min(N, T+R); so end_line <= N, and 1 <= start_line <= T
\* whenever T <= N.
C1_ContextBounds ==
    (ContextCallOnReadable /\ call.line_number >= 1) =>
        LET N == LineCount(CalledText)
            T == call.line_number
            R == call.context_lines
        IN  /\ "error" \notin DOMAIN ret
            /\ ret.start_line = Max(1, T - R)
            /\ ret.end_line = Min(N, T + R)
            /\ ret.total_lines = N
            /\ ret.end_line <= N
            /\ (T <= N => 1 <= ret.start_line /\ ret.start_line <= T)

\* a window cut on neither side
C1_Witness ==
    /\ ContextCallOnReadable
    /\ call.line_number >= 1
    /\ "error" \notin DOMAIN ret
    /\ ret.start_line > 1
    /\ ret.end_line < LineCount(CalledText)
    /\ ret.start_line < ret.end_line

\* C4: for a readable file of N lines and any integer T, issue_line is
\* line T with only trailing whitespace removed when 1 <= T <= N and the
\* empty string when T > N or T < 1, and the call succeeds in those cases.
C4_IssueLine ==
    ContextCallOnReadable =>
        LET N == LineCount(CalledText)
            T == call.line_number
        IN  /\ "error" \notin DOMAIN ret
            /\ (1 <= T /\ T <= N) => ret.issue_line = rstrip(LineText(CalledText, T))
            /\ (T > N \/ T < 1) => ret.issue_line = <<>>

----------------------------------------------------------------------------
(* Properties of the two reports (specifications SpecReport and SpecBlock) *)

FullHeader == "ISSUE #{}: {}"
FileHeader == "ISSUE #{}: {} (Line {})"
NumberedLine == "{marker}{line_num:4d} | {line}"

IsHeader(l) == l.fmt \in {FullHeader, FileHeader}

\* the numbered blocks of a report: block i runs from the i-th header line
\* up to the next header line
HeaderAt(out) == {k \in 1..Len(out) : IsHeader(out[k])}
HeaderPos(out, i) ==
    CHOOSE k \in HeaderAt(out) : Cardinality({j \in HeaderAt(out) : j <= k}) = i
BlockCount(out) == Cardinality(HeaderAt(out))
Block(out, i) ==
    SubSeq(out, HeaderPos(out, i),
           IF i < BlockCount(out) THEN HeaderPos(out, i + 1) - 1 ELSE Len(out))

SameLine(l, m)    == l.fmt = m.fmt /\ l = m
Has(seq, l)       == \E k \in 1..Len(seq) : SameLine(seq[k], l)
IsOnly(out, l)    == Len(out) = 1 /\ SameLine(out[1], l)
HasFmt(seq, fmt)  == \E k \in 1..Len(seq) : seq[k].fmt = fmt
CountFmt(seq, fmt) == Cardinality({k \in 1..Len(seq) : seq[k].fmt = fmt})
NumberedLines(seq) == SelectSeq(seq, LAMBDA l : l.fmt = NumberedLine)

FullCall == call.op = "fix_coverity_issues"
FileCall == call.op = "get_issue_by_file"
Issues   == IF json.st = "ok" THEN get(json.data, "issues", <<>>) ELSE <<>>

SourceOf(file_path) ==
    IF path_join(Cwd, file_path) \in DOMAIN fs THEN fs[path_join(Cwd, file_path)]
    ELSE Missing
FileOf(issue) == SourceOf(get(issue, "file", "Unknown"))

\* C2: the full report of n findings has exactly n numbered blocks,
\* numbered 1..n in input order; a finding whose file is missing or
\* unreadable gets an error notice in its own block, every other block and
\* the footer are still rendered.
C2_EveryFindingHasItsBlock ==
    (FullCall /\ json.st = "ok") =>
        /\ BlockCount(ret) = Len(Issues)
        /\ \A i \in 1..Len(Issues) :
              LET b == Block(ret, i) IN
              /\ b[1].fmt = FullHeader /\ b[1].a = i
              /\ Has(b, L1("File: {}", get(Issues[i], "file", "Unknown")))
              /\ Has(b, L1("Line: {}", get(Issues[i], "line", 0)))
              /\ CountFmt(b, "Context: {}") + CountFmt(b, "CODE CONTEXT (Lines {}-{}):") = 1
              /\ FileOf(Issues[i]).st # "ok" <=> HasFmt(b, "Context: {}")
        /\ Len(Issues) > 0 =>
              SubSeq(ret, Len(ret) - Len(FixingInstructions) + 1, Len(ret))
                  = FixingInstructions

\* a missing file in the first of two findings, the second rendered
C2_Witness ==
    /\ FullCall /\ json.st = "ok" /\ Len(Issues) = 2
    /\ FileOf(Issues[1]).st = "missing"
    /\ FileOf(Issues[2]).st = "ok"
    /\ HasFmt(Block(ret, 1), "Context: {}")
    /\ HasFmt(Block(ret, 2), NumberedLine)

EmptyFindings == json.st = "ok" /\ Issues = <<>>

Matching(p) == SelectSeq(Issues, LAMBDA f : "file" \in DOMAIN f /\ f["file"] = p)

C6_FileFilter ==
    (FileCall /\ json.st = "ok") =>
        LET want == Matching(call.file_path) IN
        IF want = <<>>
        THEN IsOnly(ret, L1("No Coverity issues found in file: {}", call.file_path))
        ELSE /\ BlockCount(ret) = Len(want)
             /\ Has(ret, L1("Total Issues in File: {}", Len(want)))
             /\ CountFmt(ret, "Total Issues in File: {}") = 1
             /\ \A i \in 1..Len(want) :
                   LET h == Block(ret, i)[1] IN
                   h.fmt = FileHeader /\ h.a = i /\ h.c = get(want[i], "line", 0)

\* of two findings only the second is in the file asked for
C6_Witness ==
    /\ FileCall /\ json.st = "ok"
    /\ Len(Issues) = 2
    /\ Matching(call.file_path) = << Issues[2] >>
    /\ BlockCount(ret) = 1
    /\ Block(ret, 1)[1].c = 3

\* C7: in both reports, a finding whose context extraction fails has a
\* one-line error notice in its block in place of the context block.
ExtractionFails(i) ==
    IF FullCall THEN FileOf(Issues[i]).st # "ok"
    ELSE SourceOf(call.file_path).st # "ok"        \* every block is of that file

C7_ErrorNotice ==
    ((FullCall \/ FileCall) /\ json.st = "ok") =>
        \A i \in 1..BlockCount(ret) :
            ExtractionFails(i) =>
                /\ CountFmt(Block(ret, i), "Context: {}") = 1
                /\ ~HasFmt(Block(ret, i), NumberedLine)

\* C8: with the findings source missing, both entry points return exactly
\* the one line naming the missing path; with a source that cannot be
\* decoded they return one prefixed error line carrying the cause, other
\* than the not-found line.
ErrorFormats ==
    {"Error: Invalid JSON format in {}: {}", "Error processing Coverity issues: {}",
     "Error: {}"}

CarriesCause(l, cause) ==
    \/ l.fmt = "Error: Invalid JSON format in {}: {}" /\ l.a = JsonPath /\ l.b = cause
    \/ l.fmt \in {"Error processing Coverity issues: {}", "Error: {}"} /\ l.a = cause

C8_SourceErrors ==
    (FullCall \/ FileCall) =>
        /\ json.st = "missing" =>
              IsOnly(ret, [fmt |-> "Error: Coverity issues file not found at {}",
                           a |-> call.coverity_json_path])
        /\ json.st = "invalid" =>
              /\ Len(ret) = 1
              /\ ret[1].fmt \in ErrorFormats
              /\ CarriesCause(ret[1], json.cause)
              /\ ret[1].fmt # "Error: Coverity issues file not found at {}"

C8_Witness ==
    /\ FileCall /\ json.st = "invalid" /\ json.exc = "JSONDecodeError"
    /\ IsOnly(ret, L1("Error: {}", json.cause))

----------------------------------------------------------------------------
(* Properties of one rendered context block (specification SpecBlock): one
   finding, in a.py *)

BlockCall ==
    /\ FullCall \/ (FileCall /\ call.file_path = "a.py")
    /\ fs[APath].st = "ok"

BlockText   == fs[APath].text
BlockLine   == get(Issues[1], "line", 0)
BlockRadius == IF FullCall THEN FullRadius ELSE FileRadius
Marked(rl)  == {k \in 1..Len(rl) : rl[k].marker = ">>> "}

\* C5: a rendered line carries ">>> " iff its number is the finding's line:
\* with 1 <= T <= N exactly one rendered line is marked, the one numbered T;
\* with T > N none is.
C5_Marker ==
    BlockCall =>
        LET rl == NumberedLines(ret)
            T  == BlockLine
            N  == LineCount(BlockText)
        IN  /\ \A k \in 1..Len(rl) : rl[k].marker = ">>> " <=> rl[k].line_num = T
            /\ \A k \in 1..Len(rl) : rl[k].marker \in {">>> ", "    "}
            /\ (1 <= T /\ T <= N) =>
                  /\ Cardinality(Marked(rl)) = 1
                  /\ \A k \in Marked(rl) : rl[k].line_num = T
            /\ T > N => Marked(rl) = {}

\* five lines, finding on line 3, full report: lines 1..5, line 3 marked
C5_Witness ==
    /\ BlockCall /\ FullCall
    /\ LineCount(BlockText) = 5
    /\ BlockLine = 3
    /\ Len(NumberedLines(ret)) = 5
    /\ \A k \in 1..5 : NumberedLines(ret)[k].line_num = k
    /\ Marked(NumberedLines(ret)) = {3}

\* C9: the rendered lines are the same with and without a newline at the
\* end of the file; only the empty last element of the split is dropped, and
\* every line of the window, blank ones too, is printed.
WithTrailingNewline(files) == [files EXCEPT ![APath].text = Append(@, NL)]

Rerun(files) ==
    IF FullCall THEN fix_coverity_issues(files, json, JsonPath)
    ELSE get_issue_by_file(files, json, call.file_path, JsonPath)

WithoutTerminator(line) ==
    IF line # <<>> /\ line[Len(line)] = NL THEN SubSeq(line, 1, Len(line) - 1) ELSE line

Window ==
    LET lines == readlines(BlockText) IN
    slice(lines, Max(0, BlockLine - BlockRadius - 1),
          Min(Len(lines), BlockLine + BlockRadius))

EndsUnterminated(text) == text # <<>> /\ text[Len(text)] # NL

C9_TrailingNewline ==
    BlockCall =>
        LET rl == NumberedLines(ret) IN
        /\ EndsUnterminated(BlockText) =>
              rl = NumberedLines(Rerun(WithTrailingNewline(fs)))
        /\ (HasFmt(ret, "CODE CONTEXT (Lines {}-{}):") \/ HasFmt(ret, "Code Context (Lines {}-{}):")) =>
              /\ Len(rl) = Len(Window)
              /\ \A k \in 1..Len(rl) : rl[k].line = WithoutTerminator(Window[k])

\* a file without final newline whose window holds a blank line and the last line
C9_Witness ==
    /\ BlockCall
    /\ EndsUnterminated(BlockText)
    /\ Len(NumberedLines(ret)) = LineCount(BlockText)
    /\ \E k \in 1..Len(NumberedLines(ret)) : NumberedLines(ret)[k].line = <<>>
    /\ NumberedLines(ret)[Len(NumberedLines(ret))].line # <<>>

\* C11: for a readable file, a finding line T >= 0 and the radius of the
\* report, the printed range 'Lines s-e' agrees with the printed lines: with
\* s <= e exactly e-s+1 lines are rendered, numbered s, s+1, ..., e, each
\* showing the file line of that number; with s > e no line is rendered.
ContextHeaders ==
    SelectSeq(ret, LAMBDA l : l.fmt \in {"CODE CONTEXT (Lines {}-{}):",
                                         "Code Context (Lines {}-{}):"})

C11_HeaderMatchesLines ==
    (BlockCall /\ BlockLine >= 0) =>
        LET rl == NumberedLines(ret)
            hs == ContextHeaders
        IN  IF hs = <<>>
            THEN rl = <<>>
            ELSE LET s == hs[1].a
                     e == hs[1].b
                 IN  /\ Len(hs) = 1
                     /\ IF s <= e
                        THEN /\ 1 <= s
                             /\ e <= LineCount(BlockText)
                             /\ Len(rl) = e - s + 1
                             /\ \A k \in 1..Len(rl) :
                                   /\ rl[k].line_num = s + k - 1
                                   /\ rl[k].line = LineText(BlockText, s + k - 1)
                        ELSE rl = <<>>

\* a window that starts after line 1 and holds several lines
C11_Witness ==
    /\ BlockCall /\ BlockLine >= 0
    /\ ContextHeaders # <<>>
    /\ ContextHeaders[1].a > 1
    /\ ContextHeaders[1].a < ContextHeaders[1].b
    /\ Len(NumberedLines(ret)) = ContextHeaders[1].b - ContextHeaders[1].a + 1

\* an empty window: the range printed runs backwards and no line follows
C11_EmptyWindow ==
    /\ BlockCall /\ BlockLine >= 0
    /\ ContextHeaders # <<>>
    /\ ContextHeaders[1].a > ContextHeaders[1].b
    /\ NumberedLines(ret) = <<>>

----------------------------------------------------------------------------
(* Property of process_file (specification SpecProcess) *)

\* C10: for a filename that contains '..' or resolves outside the working
\* directory, process_file returns None, never the contents of the file.
C10_TraversalRejected ==
    (call.op = "process_file"
     /\ (has_dotdot(call.filename) \/ ~is_relative_to(resolve(call.filename), Cwd)))
        => ret = None

====
